---- MODULE Spec2Model ----
(***************************************************************************)
(* wgdynamic-go: the request_ip codec (command.go, kvParser), the client   *)
(* executor (Client.RequestIP / Client.execute) and the per-connection     *)
(* dispatcher of the Server.                                               *)
(*                                                                         *)
(* Text is a sequence of one-character strings, so that formatting and     *)
(* parsing are computed character by character as the code does.           *)
(*                                                                         *)
(* Scaling of the Go standard library types (TLC integers are 32 bit):     *)
(*   - an IP address is AddrBits wide; IPv4 text is "0.<n>", IPv6 text is  *)
(*     "::<n>" (n decimal); a mask is a prefix length 0..AddrBits; the     *)
(*     top bit of an IPv6 address stands for the ::ffff:0:0/96 prefix of   *)
(*     the IPv4-mapped addresses, the bits below it for the IPv4 address;  *)
(*   - a time.Duration counts milliseconds (Second = 1000);                *)
(*   - a time.Time is [abs, ms]: seconds since the zero Time and the       *)
(*     sub-second part; Unix() = abs - UnixToInternal.                     *)
(***************************************************************************)
EXTENDS Integers, Sequences, FiniteSets, TLC

\* ---------------------------------------------------------------- bounds
AddrBits == 2
MaxLines == 3

\* scaled constants of package time
Second == 1000
UnixToInternal == 100

\* ------------------------------------------------------------------ text
NL == "\n"
CR == "\r"
Digits == <<"0", "1", "2", "3", "4", "5", "6", "7", "8", "9">>

IsDigit(c) == \E i \in 1..10 : Digits[i] = c
DigitVal(c) == (CHOOSE i \in 1..10 : Digits[i] = c) - 1

RECURSIVE Pow2(_)
Pow2(n) == IF n = 0 THEN 1 ELSE 2 * Pow2(n - 1)

\* fmt %d of a non-negative integer
RECURSIVE ItoaNat(_)
ItoaNat(n) == IF n < 10 THEN <<Digits[n + 1]>>
              ELSE ItoaNat(n \div 10) \o <<Digits[(n % 10) + 1]>>

\* fmt %d
Itoa(n) == IF n < 0 THEN <<"-">> \o ItoaNat(0 - n) ELSE ItoaNat(n)

\* the value of a non-empty string of digits
RECURSIVE DigitsVal(_)
DigitsVal(s) == IF Len(s) = 0 THEN 0
                ELSE 10 * DigitsVal(SubSeq(s, 1, Len(s) - 1)) + DigitVal(s[Len(s)])

AllDigits(s) == Len(s) > 0 /\ \A i \in 1..Len(s) : IsDigit(s[i])

\* strconv.Atoi: an optional sign, then digits only
Atoi(s) ==
    LET body == IF Len(s) > 0 /\ s[1] \in {"+", "-"} THEN Tail(s) ELSE s
    IN  IF ~AllDigits(body) THEN [ok |-> FALSE, val |-> 0]
        ELSE [ok |-> TRUE,
              val |-> IF s[1] = "-" THEN 0 - DigitsVal(body) ELSE DigitsVal(body)]

\* the index of the first c in s, 0 when there is none
IndexOf(s, c) == IF \E i \in 1..Len(s) : s[i] = c
                 THEN CHOOSE i \in 1..Len(s) : s[i] = c /\ \A j \in 1..(i - 1) : s[j] # c
                 ELSE 0

\* strings.Split(s, sep) for a one-character separator
RECURSIVE Split(_, _)
Split(s, sep) ==
    LET i == IndexOf(s, sep)
    IN  IF i = 0 THEN <<s>>
        ELSE <<SubSeq(s, 1, i - 1)>> \o Split(SubSeq(s, i + 1, Len(s)), sep)

\* keys and literals of the wire format
K_request_ip == <<"r", "e", "q", "u", "e", "s", "t", "_", "i", "p">>
K_ipv4 == <<"i", "p", "v", "4">>
K_ipv6 == <<"i", "p", "v", "6">>
K_leasestart == <<"l", "e", "a", "s", "e", "s", "t", "a", "r", "t">>
K_leasetime == <<"l", "e", "a", "s", "e", "t", "i", "m", "e">>
K_errno == <<"e", "r", "r", "n", "o">>
K_errmsg == <<"e", "r", "r", "m", "s", "g">>
K_foo == <<"f", "o", "o">>

\* the elements of a sequence
Range(s) == {s[i] : i \in 1..Len(s)}

\* "key=value\n"
KVLine(k, v) == k \o <<"=">> \o v \o <<NL>>

\* ------------------------------------------------------------ net.IPNet
\* fam is 4 or 6, and 0 for a nil *net.IPNet; a is the address, ones the
\* prefix length of the mask
NilIPNet == [fam |-> 0, a |-> 0, ones |-> 0]
IPNetOf(fam, a, ones) == [fam |-> fam, a |-> a, ones |-> ones]

\* net.IP.Mask: the host bits cleared
MaskIP(a, ones) == (a \div Pow2(AddrBits - ones)) * Pow2(AddrBits - ones)

\* the 16-byte addresses that net.IP.To4 converts: the IPv4-mapped ones
V4InV6(fam, a) == fam = 6 /\ a >= Pow2(AddrBits - 1)

\* n.IP.To4() != nil
To4(n) == n.fam = 4 \/ V4InV6(n.fam, n.a)

\* net.IP.String: an IPv4-mapped address is printed as its IPv4 address
IPString(fam, a) ==
    IF fam = 4 THEN <<"0", ".">> \o ItoaNat(a)
    ELSE IF V4InV6(fam, a) THEN <<"0", ".">> \o ItoaNat(a - Pow2(AddrBits - 1))
    ELSE <<":", ":">> \o ItoaNat(a)

\* net.IPNet.String: address "/" prefix length; with an IPv4-mapped address
\* the mask is cut to its IPv4 part
IPNetString(n) ==
    IPString(n.fam, n.a) \o <<"/">>
        \o ItoaNat(IF V4InV6(n.fam, n.a)
                   THEN (IF n.ones > 0 THEN n.ones - 1 ELSE 0) ELSE n.ones)

\* net.ParseIP: the family from the syntax, the address from the digits
ParseIP(t) ==
    LET num == SubSeq(t, 3, Len(t))
        fam == IF Len(t) >= 2 /\ SubSeq(t, 1, 2) = <<"0", ".">> THEN 4
               ELSE IF Len(t) >= 2 /\ SubSeq(t, 1, 2) = <<":", ":">> THEN 6
               ELSE 0
    IN  IF fam = 0 \/ ~AllDigits(num) THEN [ok |-> FALSE, fam |-> 0, a |-> 0]
        ELSE IF DigitsVal(num) >= Pow2(AddrBits) THEN [ok |-> FALSE, fam |-> 0, a |-> 0]
        ELSE [ok |-> TRUE, fam |-> fam, a |-> DigitsVal(num)]

\* net.ParseCIDR: (ip, ipnet, err); ipnet holds the network address, that
\* is ip with the host bits cleared
ParseCIDR(t) ==
    LET i == IndexOf(t, "/")
        ip == ParseIP(SubSeq(t, 1, i - 1))
        m == SubSeq(t, i + 1, Len(t))
        bad == [ok |-> FALSE, ip |-> NilIPNet, ipn |-> NilIPNet]
    IN  IF i = 0 THEN bad
        ELSE IF ~ip.ok \/ ~AllDigits(m) THEN bad
        ELSE IF DigitsVal(m) > AddrBits THEN bad
        ELSE [ok |-> TRUE,
              ip |-> IPNetOf(ip.fam, ip.a, DigitsVal(m)),
              ipn |-> IPNetOf(ip.fam, MaskIP(ip.a, DigitsVal(m)), DigitsVal(m))]

\* ------------------------------------------------------------ time.Time
ZeroTime == [abs |-> 0, ms |-> 0]
TimeIsZero(t) == t.abs = 0 /\ t.ms = 0
TimeUnix(t) == t.abs - UnixToInternal
\* time.Unix(sec, 0)
UnixTime(sec) == [abs |-> sec + UnixToInternal, ms |-> 0]

\* the mantissa of float64, scaled as Second is: the sum of whole seconds
\* and fraction keeps FloatMant significant bits
FloatMant == 13

RECURSIVE Log2(_)
Log2(n) == IF n < 2 THEN 0 ELSE 1 + Log2(n \div 2)

\* int(d.Seconds()) for d >= 0. Seconds() is
\* float64(d / Second) + float64(d % Second) / 1e9: the sum is rounded to
\* the nearest float64 (ties to even) and int() truncates the rounded sum.
SecondsToInt(d) ==
    LET sec == d \div Second
        ulpDen == Pow2(FloatMant - 1 - Log2(sec))
        q == (d * ulpDen) \div Second
        r == (d * ulpDen) % Second
        m == IF 2 * r > Second \/ (2 * r = Second /\ q % 2 = 1) THEN q + 1 ELSE q
    IN  IF sec = 0 THEN 0 ELSE m \div ulpDen

\* int(d.Seconds())
DurationSeconds(d) == IF d >= 0 THEN SecondsToInt(d) ELSE 0 - SecondsToInt(0 - d)

\* ------------------------------------------------------------ RequestIP
ZeroRequestIP == [IPv4 |-> NilIPNet, IPv6 |-> NilIPNet,
                  LeaseStart |-> ZeroTime, LeaseTime |-> 0]
\* *RequestIP
NilRequestIP == [nil |-> TRUE, v |-> ZeroRequestIP]
PtrTo(r) == [nil |-> FALSE, v |-> r]

\* --------------------------------------------------------------- errors
\* an error value: its kind, and for a protocol error (*Error) Number and
\* Message
ErrOf(type, num, msg) == [type |-> type, num |-> num, msg |-> msg]
NoErr == ErrOf("nil", 0, <<>>)
ErrMalformed(line) == ErrOf("malformed", 0, line)
ErrAtoi(v) == ErrOf("atoi", 0, v)
ErrCIDR(v) == ErrOf("cidr", 0, v)
ErrBadIPv4(v) == ErrOf("badIPv4", 0, v)
ErrBadIPv6(v) == ErrOf("badIPv6", 0, v)
ErrCommand == ErrOf("command", 0, <<>>)
\* a net.Error whose Timeout() is true
ErrTimeout == ErrOf("timeout", 0, <<>>)
\* any other failure of dial, read or write
ErrTransport == ErrOf("transport", 0, <<>>)
\* the error of a dial that the context ended: ctx.Err() inside *net.OpError
ErrDialCanceled == ErrOf("dialcanceled", 0, <<>>)

\* ------------------------------------------------------------- kvParser
\* The reader behind the bufio.Scanner: data, then fault once the data is
\* used up (NoErr: a clean end of stream).
StreamOf(data, fault) == [data |-> data, fault |-> fault]

\* kvParser: rest is what the scanner has not tokenised yet, fault what the
\* reader returns after it, serr the scanner's own error (s.Err()), err the
\* parser's decode fault, werr the accumulated protocol error, k and v the
\* current pair.
newKVParser(r) ==
    [rest |-> r.data, fault |-> r.fault, serr |-> NoErr, err |-> NoErr,
     werr |-> [Number |-> 0, Message |-> <<>>], k |-> <<>>, v |-> <<>>]

\* bufio.ScanLines: a trailing carriage return is dropped
DropCR(line) == IF Len(line) > 0 /\ line[Len(line)] = CR
                THEN SubSeq(line, 1, Len(line) - 1) ELSE line

\* p.s.Scan() recording the end of the stream as a read error
Scan_EOFIsError(p) ==
    LET i == IndexOf(p.rest, NL)
        e == IF p.fault = NoErr THEN ErrTransport ELSE p.fault
    IN  IF i > 0
        THEN [ok |-> TRUE, text |-> DropCR(SubSeq(p.rest, 1, i - 1)),
              p |-> [p EXCEPT !.rest = SubSeq(p.rest, i + 1, Len(p.rest))]]
        ELSE IF Len(p.rest) > 0
        THEN [ok |-> TRUE, text |-> DropCR(p.rest),
              p |-> [p EXCEPT !.rest = <<>>, !.serr = e]]
        ELSE [ok |-> FALSE, text |-> <<>>, p |-> [p EXCEPT !.serr = e]]

\* p.s.Scan() with bufio.ScanLines: the next line without its newline; at
\* the end of the data the read fault is recorded and a last unterminated
\* line, if any, is still returned
Scan(p) ==
    LET i == IndexOf(p.rest, NL)
    IN  IF i > 0
        THEN [ok |-> TRUE, text |-> DropCR(SubSeq(p.rest, 1, i - 1)),
              p |-> [p EXCEPT !.rest = SubSeq(p.rest, i + 1, Len(p.rest))]]
        ELSE IF Len(p.rest) > 0
        THEN [ok |-> TRUE, text |-> DropCR(p.rest),
              p |-> [p EXCEPT !.rest = <<>>, !.serr = p.fault]]
        ELSE [ok |-> FALSE, text |-> <<>>, p |-> [p EXCEPT !.serr = p.fault]]

\* kvParser.Int dropping the error of strconv.Atoi
kvInt_DropsError(p) ==
    IF p.err # NoErr THEN [val |-> 0, p |-> p]
    ELSE IF ~Atoi(p.v).ok THEN [val |-> 0, p |-> p]
    ELSE [val |-> Atoi(p.v).val, p |-> p]

\* kvParser.Int: the value and the parser after the call
kvInt(p) ==
    IF p.err # NoErr THEN [val |-> 0, p |-> p]
    ELSE IF ~Atoi(p.v).ok THEN [val |-> 0, p |-> [p EXCEPT !.err = ErrAtoi(p.v)]]
    ELSE [val |-> Atoi(p.v).val, p |-> p]

\* kvParser.String with the test of p.err inverted
kvString_Inverted(p) == IF p.err = NoErr THEN <<>> ELSE p.v

\* kvParser.String
kvString(p) == IF p.err # NoErr THEN <<>> ELSE p.v

\* kvParser.IPNet without the check of the family
kvIPNet_NoFamilyCheck(p, family) ==
    LET c == ParseCIDR(p.v)
    IN  IF p.err # NoErr THEN [val |-> NilIPNet, p |-> p]
        ELSE IF ~c.ok THEN [val |-> NilIPNet, p |-> [p EXCEPT !.err = ErrCIDR(p.v)]]
        ELSE [val |-> c.ipn, p |-> p]

\* kvParser.IPNet: the ipnet that net.ParseCIDR returns (the network
\* address), checked against the family with net.IP.To4
kvIPNet(p, family) ==
    LET c == ParseCIDR(p.v)
    IN  IF p.err # NoErr THEN [val |-> NilIPNet, p |-> p]
        ELSE IF ~c.ok THEN [val |-> NilIPNet, p |-> [p EXCEPT !.err = ErrCIDR(p.v)]]
        ELSE IF family = 4 /\ ~To4(c.ipn)
        THEN [val |-> NilIPNet, p |-> [p EXCEPT !.err = ErrBadIPv4(p.v)]]
        ELSE IF family = 6 /\ To4(c.ipn)
        THEN [val |-> NilIPNet, p |-> [p EXCEPT !.err = ErrBadIPv6(p.v)]]
        ELSE [val |-> c.ipn, p |-> p]

\* kvParser.Next taking every line with a "=" for a pair: len(kvs) < 2
RECURSIVE kvNext_AtLeastOneSep(_)
kvNext_AtLeastOneSep(p) ==
    LET s == Scan(p)
        kvs == Split(s.text, "=")
        q == [s.p EXCEPT !.k = kvs[1], !.v = kvs[2]]
    IN  IF ~s.ok \/ s.text = <<>> THEN [ok |-> FALSE, p |-> s.p]
        ELSE IF Len(kvs) < 2
        THEN [ok |-> FALSE, p |-> [s.p EXCEPT !.err = ErrMalformed(s.text)]]
        ELSE IF q.k = K_errno
        THEN kvNext_AtLeastOneSep([kvInt(q).p EXCEPT !.werr.Number = kvInt(q).val])
        ELSE IF q.k = K_errmsg
        THEN kvNext_AtLeastOneSep([q EXCEPT !.werr.Message = kvString(q)])
        ELSE [ok |-> TRUE, p |-> q]

\* kvParser.Next returning true on an errmsg pair instead of reading on
RECURSIVE kvNext_ErrmsgVisible(_)
kvNext_ErrmsgVisible(p) ==
    LET s == Scan(p)
        kvs == Split(s.text, "=")
        q == [s.p EXCEPT !.k = kvs[1], !.v = kvs[2]]
    IN  IF ~s.ok \/ s.text = <<>> THEN [ok |-> FALSE, p |-> s.p]
        ELSE IF Len(kvs) # 2
        THEN [ok |-> FALSE, p |-> [s.p EXCEPT !.err = ErrMalformed(s.text)]]
        ELSE IF q.k = K_errno
        THEN kvNext_ErrmsgVisible([kvInt(q).p EXCEPT !.werr.Number = kvInt(q).val])
        ELSE IF q.k = K_errmsg
        THEN [ok |-> TRUE, p |-> [q EXCEPT !.werr.Message = kvString(q)]]
        ELSE [ok |-> TRUE, p |-> q]

\* kvParser.Next reading on after an empty line
RECURSIVE kvNext_SkipsBlank(_)
kvNext_SkipsBlank(p) ==
    LET s == Scan(p)
        kvs == Split(s.text, "=")
        q == [s.p EXCEPT !.k = kvs[1], !.v = kvs[2]]
    IN  IF ~s.ok THEN [ok |-> FALSE, p |-> s.p]
        ELSE IF s.text = <<>> THEN kvNext_SkipsBlank(s.p)
        ELSE IF Len(kvs) # 2
        THEN [ok |-> FALSE, p |-> [s.p EXCEPT !.err = ErrMalformed(s.text)]]
        ELSE IF q.k = K_errno
        THEN kvNext_SkipsBlank([kvInt(q).p EXCEPT !.werr.Number = kvInt(q).val])
        ELSE IF q.k = K_errmsg
        THEN kvNext_SkipsBlank([q EXCEPT !.werr.Message = kvString(q)])
        ELSE [ok |-> TRUE, p |-> q]

\* kvParser.Next: errno and errmsg pairs are taken in and the next pair is
\* read in their place
RECURSIVE kvNext(_)
kvNext(p) ==
    LET s == Scan(p)
        kvs == Split(s.text, "=")
        q == [s.p EXCEPT !.k = kvs[1], !.v = kvs[2]]
    IN  IF ~s.ok \/ s.text = <<>> THEN [ok |-> FALSE, p |-> s.p]
        ELSE IF Len(kvs) # 2
        THEN [ok |-> FALSE, p |-> [s.p EXCEPT !.err = ErrMalformed(s.text)]]
        ELSE IF q.k = K_errno
        THEN kvNext([kvInt(q).p EXCEPT !.werr.Number = kvInt(q).val])
        ELSE IF q.k = K_errmsg
        THEN kvNext([q EXCEPT !.werr.Message = kvString(q)])
        ELSE [ok |-> TRUE, p |-> q]

\* kvParser.Key
kvKey(p) == p.k

\* kvParser.Err looking at the protocol error before the decode fault
kvErr_ProtocolFirst(p) ==
    IF p.serr # NoErr THEN p.serr
    ELSE IF p.werr.Number # 0 THEN ErrOf("protocol", p.werr.Number, p.werr.Message)
    ELSE IF p.err # NoErr THEN p.err
    ELSE NoErr

\* kvParser.Err without the test of the number: errno=0 is reported too
kvErr_NoZeroTest(p) ==
    IF p.serr # NoErr THEN p.serr
    ELSE IF p.err # NoErr THEN p.err
    ELSE ErrOf("protocol", p.werr.Number, p.werr.Message)

\* kvParser.Err
kvErr(p) ==
    IF p.serr # NoErr THEN p.serr
    ELSE IF p.err # NoErr THEN p.err
    ELSE IF p.werr.Number # 0 THEN ErrOf("protocol", p.werr.Number, p.werr.Message)
    ELSE NoErr

\* ------------------------------------------------------------ command.go
\* sendRequestIP writing ipv6 before ipv4, and a leasetime that is not set
sendRequestIP_Reordered(rip) ==
    IF rip.nil THEN KVLine(K_request_ip, <<"1">>) \o <<NL>>
    ELSE KVLine(K_request_ip, <<"1">>)
         \o (IF rip.v.IPv6 # NilIPNet THEN KVLine(K_ipv6, IPNetString(rip.v.IPv6)) ELSE <<>>)
         \o (IF rip.v.IPv4 # NilIPNet THEN KVLine(K_ipv4, IPNetString(rip.v.IPv4)) ELSE <<>>)
         \o (IF ~TimeIsZero(rip.v.LeaseStart)
             THEN KVLine(K_leasestart, Itoa(TimeUnix(rip.v.LeaseStart))) ELSE <<>>)
         \o (IF rip.v.LeaseTime >= 0
             THEN KVLine(K_leasetime, Itoa(DurationSeconds(rip.v.LeaseTime))) ELSE <<>>)
         \o <<NL>>

\* sendRequestIP: the bytes written to w
sendRequestIP(rip) ==
    IF rip.nil THEN KVLine(K_request_ip, <<"1">>) \o <<NL>>
    ELSE KVLine(K_request_ip, <<"1">>)
         \o (IF rip.v.IPv4 # NilIPNet THEN KVLine(K_ipv4, IPNetString(rip.v.IPv4)) ELSE <<>>)
         \o (IF rip.v.IPv6 # NilIPNet THEN KVLine(K_ipv6, IPNetString(rip.v.IPv6)) ELSE <<>>)
         \o (IF ~TimeIsZero(rip.v.LeaseStart)
             THEN KVLine(K_leasestart, Itoa(TimeUnix(rip.v.LeaseStart))) ELSE <<>>)
         \o (IF rip.v.LeaseTime > 0
             THEN KVLine(K_leasetime, Itoa(DurationSeconds(rip.v.LeaseTime))) ELSE <<>>)
         \o <<NL>>

\* parseRequestIP's switch with a default case that rejects the key
parseField_UnknownKeyError(p, rip) ==
    IF kvKey(p) = K_ipv4
    THEN [p |-> kvIPNet(p, 4).p, rip |-> [rip EXCEPT !.IPv4 = kvIPNet(p, 4).val]]
    ELSE IF kvKey(p) = K_ipv6
    THEN [p |-> kvIPNet(p, 6).p, rip |-> [rip EXCEPT !.IPv6 = kvIPNet(p, 6).val]]
    ELSE IF kvKey(p) = K_leasestart
    THEN [p |-> kvInt(p).p, rip |-> [rip EXCEPT !.LeaseStart = UnixTime(kvInt(p).val)]]
    ELSE IF kvKey(p) = K_leasetime
    THEN [p |-> kvInt(p).p, rip |-> [rip EXCEPT !.LeaseTime = kvInt(p).val * Second]]
    ELSE [p |-> [p EXCEPT !.err = IF p.err # NoErr THEN p.err ELSE ErrMalformed(p.k)],
          rip |-> rip]

\* the body of parseRequestIP's loop for the pair p stands on: the switch
\* on p.Key()
parseField(p, rip) ==
    IF kvKey(p) = K_ipv4
    THEN [p |-> kvIPNet(p, 4).p, rip |-> [rip EXCEPT !.IPv4 = kvIPNet(p, 4).val]]
    ELSE IF kvKey(p) = K_ipv6
    THEN [p |-> kvIPNet(p, 6).p, rip |-> [rip EXCEPT !.IPv6 = kvIPNet(p, 6).val]]
    ELSE IF kvKey(p) = K_leasestart
    THEN [p |-> kvInt(p).p, rip |-> [rip EXCEPT !.LeaseStart = UnixTime(kvInt(p).val)]]
    ELSE IF kvKey(p) = K_leasetime
    THEN [p |-> kvInt(p).p, rip |-> [rip EXCEPT !.LeaseTime = kvInt(p).val * Second]]
    ELSE [p |-> p, rip |-> rip]

\* parseRequestIP's return: (nil, err) or (&rip, nil)
parseResult(p, rip) ==
    IF kvErr(p) # NoErr THEN [rip |-> NilRequestIP, err |-> kvErr(p)]
    ELSE [rip |-> PtrTo(rip), err |-> NoErr]

\* the loop of parseRequestIP from parser p with rip filled so far
RECURSIVE parseLoop(_, _)
parseLoop(p, rip) ==
    LET n == kvNext(p)
        f == parseField(n.p, rip)
    IN  IF n.ok THEN parseLoop(f.p, f.rip) ELSE parseResult(n.p, rip)

\* parseRequestIP
parseRequestIP(p) == parseLoop(p, ZeroRequestIP)

\* parse handing on a parser that forgot the errno and errmsg pairs read
\* before the command
parse_FreshError(r) ==
    LET n == kvNext(newKVParser(r))
    IN  IF ~n.ok THEN [ok |-> FALSE, p |-> n.p, cmd |-> <<>>, err |-> kvErr(n.p)]
        ELSE [ok |-> TRUE, p |-> [n.p EXCEPT !.werr = [Number |-> 0, Message |-> <<>>]],
              cmd |-> kvKey(n.p), err |-> NoErr]

\* parse returning p.Err() with the command as well
parse_AlwaysErr(r) ==
    LET n == kvNext(newKVParser(r))
    IN  IF ~n.ok THEN [ok |-> FALSE, p |-> n.p, cmd |-> <<>>, err |-> kvErr(n.p)]
        ELSE [ok |-> TRUE, p |-> n.p, cmd |-> kvKey(n.p), err |-> kvErr(n.p)]

\* parse: (p, command, err); ok says whether a parser is returned
parse(r) ==
    LET n == kvNext(newKVParser(r))
    IN  IF ~n.ok THEN [ok |-> FALSE, p |-> n.p, cmd |-> <<>>, err |-> kvErr(n.p)]
        ELSE [ok |-> TRUE, p |-> n.p, cmd |-> kvKey(n.p), err |-> NoErr]

\* the function passed to execute without the check of the command
readResponse_NoCommandCheck(r) ==
    LET h == parse(r)
    IN  IF h.err # NoErr THEN [rip |-> NilRequestIP, err |-> h.err]
        ELSE IF ~h.ok THEN [rip |-> NilRequestIP, err |-> NoErr]
        ELSE parseRequestIP(h.p)

\* what the function passed to execute does with the response read from r,
\* and what RequestIP then returns: (nil, err) or (rip, nil)
readResponse(r) ==
    LET h == parse(r)
    IN  IF h.err # NoErr THEN [rip |-> NilRequestIP, err |-> h.err]
        ELSE IF h.cmd # K_request_ip THEN [rip |-> NilRequestIP, err |-> ErrCommand]
        ELSE parseRequestIP(h.p)

\* parse followed by parseRequestIP, as a peer decodes a written message
decodeRequestIP(r) ==
    LET h == parse(r)
    IN  IF ~h.ok THEN [rip |-> NilRequestIP, err |-> h.err]
        ELSE parseRequestIP(h.p)

NoResult == [rip |-> NilRequestIP, err |-> NoErr]

\* ---------------------------------------------------------------- state
VARIABLES
    \* round trip of one message: the value, the bytes written, the decoding
    rt_pc, rt_in, rt_wire, rt_out,
    \* decoding of one response: the lines of the stream and how it ends,
    \* the parser, the RequestIP filled so far, what RequestIP returns
    ps_pc, ps_lines, ps_end, ps_p, ps_rip, ps_ret,
    \* one call of Client.RequestIP: the caller's request and context, the
    \* connection and its deadline, doneC and the WaitGroup, the positions of
    \* the call and of the watcher goroutine, the bytes written, the server's
    \* reply, what the function passed to execute returned, what RequestIP
    \* returns; dials and watchers count the connections dialled and the
    \* goroutines started, faulted records a failure of the network itself
    req, ctxErr, conn, connDeadline, doneC, wg, mpc, wpc, sent, reply, fnRes, ret,
    dials, watchers, faulted,
    \* a kvParser driven call by call: the lines of its stream and how the
    \* stream ends, the parser, the last method called, what the last Next
    \* returned, what the last accessor returned, the number of calls of
    \* Next, and the error Err gave when Next first stopped at a malformed pair
    kp_lines, kp_end, kp_p, kp_op, kp_ok, kp_val, kp_calls, kp_stuck,
    \* one connection accepted by the Server: the position of its goroutine,
    \* the handler registered, the bytes the peer sends, the decoded request,
    \* why the internal error is sent (if it is), the response to write, the
    \* bytes the peer receives, the connection, the commands decoded and the
    \* responses written, the further commands the peer has queued behind
    \* the first, and what the peer's RequestIP returns
    sv_pc, sv_handler, sv_in, sv_req, sv_cause, sv_res, sv_out, sv_conn,
    sv_served, sv_writes, sv_more, cl_ret

rtVars == <<rt_pc, rt_in, rt_wire, rt_out>>
psVars == <<ps_pc, ps_lines, ps_end, ps_p, ps_rip, ps_ret>>
exVars == <<req, ctxErr, conn, connDeadline, doneC, wg, mpc, wpc, sent, reply, fnRes,
            ret, dials, watchers, faulted>>
kpVars == <<kp_lines, kp_end, kp_p, kp_op, kp_ok, kp_val, kp_calls, kp_stuck>>
svVars == <<sv_pc, sv_handler, sv_in, sv_req, sv_cause, sv_res, sv_out, sv_conn,
            sv_served, sv_writes, sv_more, cl_ret>>
vars == <<rtVars, psVars, exVars, kpVars, svVars>>

rtIdle == rt_pc = "idle" /\ rt_in = NilRequestIP /\ rt_wire = <<>> /\ rt_out = NoResult
psIdle == /\ ps_pc = "idle" /\ ps_lines = <<>> /\ ps_end = "eof"
          /\ ps_p = newKVParser(StreamOf(<<>>, NoErr))
          /\ ps_rip = ZeroRequestIP /\ ps_ret = NoResult
NoReply == [has |-> FALSE, r |-> StreamOf(<<>>, NoErr)]
exIdle == /\ req = NilRequestIP /\ ctxErr = "nil" /\ conn = "none"
          /\ connDeadline = "none" /\ doneC = "open" /\ wg = 0
          /\ mpc = "idle" /\ wpc = "none" /\ sent = <<>> /\ reply = NoReply
          /\ fnRes = NoResult /\ ret = NoResult
          /\ dials = 0 /\ watchers = 0 /\ faulted = FALSE

\* what an accessor of kvParser returned: Int, String, IPNet
NoVal == [int |-> 0, str |-> <<>>, ipn |-> NilIPNet]
kpIdle == /\ kp_lines = <<>> /\ kp_end = "eof"
          /\ kp_p = newKVParser(StreamOf(<<>>, NoErr))
          /\ kp_op = "idle" /\ kp_ok = FALSE /\ kp_val = NoVal /\ kp_calls = 0
          /\ kp_stuck = [set |-> FALSE, err |-> NoErr]
NoHandler == [kind |-> "nil", text |-> <<>>]
svIdle == /\ sv_pc = "idle" /\ sv_handler = NoHandler
          /\ sv_in = StreamOf(<<>>, NoErr) /\ sv_req = NoResult
          /\ sv_cause = "none" /\ sv_res = <<>> /\ sv_out = <<>> /\ sv_conn = "none"
          /\ sv_served = 0 /\ sv_writes = 0 /\ sv_more = 0 /\ cl_ret = NoResult

\* ------------------------------------------------- round trip (SpecCodec)
IPNets(fam) == {IPNetOf(fam, a, ones) : a \in 0..(Pow2(AddrBits) - 1), ones \in 0..AddrBits}
\* the zero Time, whole seconds, and a time with a sub-second part
LeaseStarts == {ZeroTime, UnixTime(0), UnixTime(1), [abs |-> UnixToInternal + 1, ms |-> 500]}
\* none, whole seconds, sub-second parts, negative, and a fraction next to
\* the following second at a magnitude where float64 has no room for it
LeaseTimes == {0, 10 * Second, Second + 500, 500, 0 - Second, 16 * Second + 999}

RequestIPs ==
    {NilRequestIP} \cup
    {PtrTo([IPv4 |-> i4, IPv6 |-> i6, LeaseStart |-> ls, LeaseTime |-> lt]) :
        i4 \in {NilIPNet} \cup IPNets(4), i6 \in {NilIPNet} \cup IPNets(6),
        ls \in LeaseStarts, lt \in LeaseTimes}

InitCodec ==
    /\ rt_pc = "start" /\ rt_in \in RequestIPs
    /\ rt_wire = <<>> /\ rt_out = NoResult
    /\ psIdle /\ exIdle /\ kpIdle /\ svIdle

\* sendRequestIP(w, rip) into a buffer
RTSend ==
    /\ rt_pc = "start"
    /\ rt_wire' = sendRequestIP(rt_in)
    /\ rt_pc' = "sent"
    /\ UNCHANGED <<rt_in, rt_out, psVars, exVars, kpVars, svVars>>

\* parse and parseRequestIP on the bytes written
RTDecode ==
    /\ rt_pc = "sent"
    /\ rt_out' = decodeRequestIP(StreamOf(rt_wire, NoErr))
    /\ rt_pc' = "done"
    /\ UNCHANGED <<rt_in, rt_wire, psVars, exVars, kpVars, svVars>>

NextCodec == RTSend \/ RTDecode
SpecCodec == InitCodec /\ [][NextCodec]_vars

\* a RequestIP whose lease fields are whole seconds and not negative: the
\* values the wire format has a notation for
WholeSeconds(r) == r.LeaseStart.ms = 0 /\ r.LeaseTime >= 0 /\ r.LeaseTime % Second = 0

\* C1: a RequestIP written by sendRequestIP and decoded by parse and
\* parseRequestIP is decoded without error to a value equal field for field
\* to the one written, for every combination of present and absent IPv4,
\* IPv6, LeaseStart and LeaseTime (stated for the values with whole-second
\* lease fields).
C1_RoundTrip ==
    (rt_pc = "done" /\ ~rt_in.nil /\ WholeSeconds(rt_in.v))
        => (rt_out.err = NoErr /\ rt_out.rip = rt_in)

\* ------------------------------------------- decoding a response (SpecParse)
Ln(k, v) == k \o <<"=">> \o v
L_cmd == Ln(K_request_ip, <<"1">>)
L_foo == Ln(K_foo, <<"1">>)
L_errno12 == Ln(K_errno, <<"1", "2">>)
L_errno0 == Ln(K_errno, <<"0">>)
L_errnoBad == Ln(K_errno, <<"x">>)
L_errmsg == Ln(K_errmsg, <<"m">>)
L_ipv4 == Ln(K_ipv4, <<"0", ".", "1", "/", "2">>)
L_ipv4Bad == Ln(K_ipv4, <<":", ":", "1", "/", "2">>)
L_ipv6 == Ln(K_ipv6, <<":", ":", "1", "/", "1">>)
L_leasetime == Ln(K_leasetime, <<"1", "0">>)
L_leasetimeBad == Ln(K_leasetime, <<"x">>)
L_nopair == <<"b", "a", "d">>
L_blank == <<>>

LinePool == {L_cmd, L_foo, L_errno12, L_errno0, L_errnoBad, L_errmsg, L_ipv4,
             L_ipv4Bad, L_ipv6, L_leasetime, L_leasetimeBad, L_nopair, L_blank}

\* the responses: up to MaxLines lines, each ended by a newline
LineSeqs == UNION {[1..n -> LinePool] : n \in 0..MaxLines}

RECURSIVE Flatten(_)
Flatten(lines) == IF Len(lines) = 0 THEN <<>>
                  ELSE Head(lines) \o <<NL>> \o Flatten(Tail(lines))

\* how the stream ends after its lines: with the blank terminator line, with
\* a clean end of stream, or with a read fault
StreamEnds == {"blank", "eof", "fault"}
ResponseStream(lines, end) ==
    StreamOf(Flatten(lines) \o (IF end = "blank" THEN <<NL>> ELSE <<>>),
             IF end = "fault" THEN ErrTransport ELSE NoErr)

InitParse ==
    /\ ps_pc = "start"
    /\ ps_lines \in LineSeqs
    /\ ps_end \in StreamEnds
    /\ ps_p = newKVParser(StreamOf(<<>>, NoErr))
    /\ ps_rip = ZeroRequestIP /\ ps_ret = NoResult
    /\ rtIdle /\ exIdle /\ kpIdle /\ svIdle

\* RequestIP's function after the request is sent: parse, then the check of
\* the command
PSParse ==
    /\ ps_pc = "start"
    /\ LET h == parse(ResponseStream(ps_lines, ps_end))
       IN  IF h.err # NoErr
           THEN ps_pc' = "done" /\ ps_ret' = [rip |-> NilRequestIP, err |-> h.err]
                /\ ps_p' = h.p
           ELSE IF h.cmd # K_request_ip
           THEN ps_pc' = "done" /\ ps_ret' = [rip |-> NilRequestIP, err |-> ErrCommand]
                /\ ps_p' = h.p
           ELSE ps_pc' = "loop" /\ ps_ret' = ps_ret /\ ps_p' = h.p
    /\ UNCHANGED <<ps_lines, ps_end, ps_rip, rtVars, exVars, kpVars, svVars>>

\* one turn of parseRequestIP's loop: p.Next() and the switch on the key
PSField ==
    /\ ps_pc = "loop"
    /\ kvNext(ps_p).ok
    /\ ps_p' = parseField(kvNext(ps_p).p, ps_rip).p
    /\ ps_rip' = parseField(kvNext(ps_p).p, ps_rip).rip
    /\ UNCHANGED <<ps_pc, ps_lines, ps_end, ps_ret, rtVars, exVars, kpVars, svVars>>

\* the end of the loop: p.Next() is false, p.Err() decides the result, and
\* RequestIP returns it
PSReturn ==
    /\ ps_pc = "loop"
    /\ ~kvNext(ps_p).ok
    /\ ps_p' = kvNext(ps_p).p
    /\ ps_ret' = parseResult(kvNext(ps_p).p, ps_rip)
    /\ ps_pc' = "done"
    /\ UNCHANGED <<ps_lines, ps_end, ps_rip, rtVars, exVars, kpVars, svVars>>

NextParse == PSParse \/ PSField \/ PSReturn
SpecParse == InitParse /\ [][NextParse]_vars

\* the stepwise decoding and readResponse are the same function
PSAgree == ps_pc = "done" => ps_ret = readResponse(ResponseStream(ps_lines, ps_end))

\* ---- the response as sent, described line by line for the claims
ErrnoLines == {L_errno12, L_errno0, L_errnoBad}
ErrorLines == ErrnoLines \cup {L_errmsg}
\* the lines that are a pair with a value that parses
GoodLines == {L_cmd, L_foo, L_errno12, L_errno0, L_errmsg, L_ipv4, L_ipv6, L_leasetime}
\* the pairs that are ordinary fields or commands
OrdinaryLines == {L_cmd, L_foo, L_ipv4, L_ipv4Bad, L_ipv6, L_leasetime, L_leasetimeBad}
ErrnoNumber(line) == IF line = L_errno12 THEN 12 ELSE 0

\* the lines before the terminator
Body(lines) ==
    IF \E i \in 1..Len(lines) : lines[i] = L_blank
    THEN SubSeq(lines, 1, (CHOOSE i \in 1..Len(lines) :
                              lines[i] = L_blank /\ \A j \in 1..(i - 1) : lines[j] # L_blank) - 1)
    ELSE lines
\* the message is complete: it has its terminator, or the stream ends cleanly
Complete(lines, end) == Body(lines) # lines \/ end \in {"blank", "eof"}
Where(b, S) == {i \in 1..Len(b) : b[i] \in S}
\* the number of errno or errmsg pairs the response starts with
RECURSIVE LeadingErrors(_)
LeadingErrors(b) == IF Len(b) > 0 /\ Head(b) \in ErrorLines
                    THEN 1 + LeadingErrors(Tail(b)) ELSE 0

\* a well-formed request_ip response: complete, every line before the
\* terminator a pair whose value parses, and the first pair that is not
\* errno or errmsg the command request_ip=1
WellFormed(lines, end) ==
    LET b == Body(lines)
    IN  /\ Complete(lines, end)
        /\ \A i \in 1..Len(b) : b[i] \in GoodLines
        /\ LeadingErrors(b) < Len(b) => b[LeadingErrors(b) + 1] = L_cmd

\* C2: a response whose errno is 0 never makes RequestIP return a protocol
\* error; a well-formed response with one non-zero errno makes it return the
\* protocol error with that number and the errmsg of the response, or the
\* empty message when the response has no errmsg.
C2_ErrnoDecides ==
    LET b == Body(ps_lines)
    IN  ps_pc = "done" =>
          /\ (Where(b, ErrnoLines) # {} /\ \A i \in Where(b, ErrnoLines) : b[i] = L_errno0)
               => ps_ret.err.type # "protocol"
          /\ (/\ WellFormed(ps_lines, ps_end)
              /\ Cardinality(Where(b, ErrnoLines)) = 1
              /\ Cardinality(Where(b, {L_errmsg})) <= 1
              /\ \A i \in Where(b, ErrnoLines) : ErrnoNumber(b[i]) # 0)
               => \A i \in Where(b, ErrnoLines) :
                     ps_ret.err = ErrOf("protocol", ErrnoNumber(b[i]),
                                        IF Where(b, {L_errmsg}) # {} THEN <<"m">> ELSE <<>>)

C2_Witness ==
    /\ ps_pc = "done" /\ ps_lines = <<L_cmd, L_errno12, L_errmsg>> /\ ps_end = "blank"
    /\ ps_ret.err = ErrOf("protocol", 12, <<"m">>)

\* C3: a well-formed response with a non-zero errno anywhere before the
\* terminator makes RequestIP return the protocol error and no RequestIP,
\* whatever fields the response carries and wherever the errno line stands.
C3_ErrnoWins ==
    LET b == Body(ps_lines)
    IN  (/\ ps_pc = "done"
         /\ WellFormed(ps_lines, ps_end)
         /\ Cardinality(Where(b, ErrnoLines)) = 1
         /\ \A i \in Where(b, ErrnoLines) : ErrnoNumber(b[i]) # 0)
          => (ps_ret.rip = NilRequestIP /\ ps_ret.err.type = "protocol")

C3_Witness ==
    /\ ps_pc = "done" /\ ps_lines = <<L_cmd, L_ipv4, L_errno12>> /\ ps_end = "blank"
    /\ ps_ret.rip = NilRequestIP /\ ps_ret.err.type = "protocol"

\* C4 as claimed: when the first pair of the response has a key other than
\* request_ip, RequestIP fails with the command-mismatch error (on streams
\* that no read fault cuts short).
C4_FirstPairMismatch ==
    (/\ ps_pc = "done" /\ Len(ps_lines) > 0 /\ ps_end # "fault"
     /\ ps_lines[1] \in (OrdinaryLines \cup ErrorLines) \ {L_cmd})
      => ps_ret.err = ErrCommand

\* C4 amended: when the first pair that is not an errno or errmsg pair (only
\* errno and errmsg pairs before it) has a key other than request_ip,
\* RequestIP fails with the command-mismatch error, not with a decode or a
\* protocol error, whatever follows and however the stream ends.
C4_FirstOrdinaryPairMismatch ==
    LET k == LeadingErrors(ps_lines)
    IN  (/\ ps_pc = "done" /\ k < Len(ps_lines)
         /\ ps_lines[k + 1] \in OrdinaryLines \ {L_cmd})
          => (ps_ret.err = ErrCommand /\ ps_ret.rip = NilRequestIP)

C4_Witness ==
    /\ ps_pc = "done" /\ ps_lines = <<L_errnoBad, L_foo, L_nopair>>
    /\ ps_ret.err = ErrCommand

\* ---- the three sources of kvParser.Err, read off the response as sent
\* the lines the parser takes in: up to the terminator or the first line
\* that is no pair
Taken(lines) ==
    LET b == Body(lines)
    IN  IF \E i \in 1..Len(b) : b[i] = L_nopair
        THEN SubSeq(b, 1, CHOOSE i \in 1..Len(b) :
                              b[i] = L_nopair /\ \A j \in 1..(i - 1) : b[j] # L_nopair)
        ELSE b
\* the scanner runs into the read fault: nothing stops it before the end
ReadFaultMet(lines, end) == end = "fault" /\ Taken(lines) = lines /\ L_nopair \notin Range(lines)
\* a line taken in is no pair or has a value that does not parse
DecodeFaultMet(lines) ==
    \E i \in 1..Len(Taken(lines)) : Taken(lines)[i] \in {L_nopair, L_ipv4Bad, L_leasetimeBad, L_errnoBad}
\* the errno in force at the end: the last one taken in, 0 when none
LastErrno(lines) ==
    LET t == Taken(lines)
    IN  IF Where(t, ErrnoLines) = {} THEN 0
        ELSE ErrnoNumber(t[CHOOSE i \in Where(t, ErrnoLines) :
                               \A j \in Where(t, ErrnoLines) : j <= i])
\* the command is where parse looks for it, or the response has no command
\* at all and parse itself reports p.Err()
CommandInPlace(lines) ==
    LET t == Taken(lines)
    IN  LeadingErrors(t) < Len(t) => t[LeadingErrors(t) + 1] \in {L_cmd, L_nopair}

DecodeFaults == {"malformed", "atoi", "cidr", "badIPv4", "badIPv6"}

\* C14: kvParser.Err returns the stream read fault if the scanner met one,
\* otherwise the decode fault if a line taken in was malformed or had a
\* value that does not parse, otherwise the protocol error if the errno in
\* force is non-zero, otherwise nil; a response with a malformed value and a
\* non-zero errno reports the decode fault. (Stated of what RequestIP
\* returns from p.Err(); where Err is nil and the response held no command,
\* RequestIP reports the command mismatch.)
C14_ErrPriority ==
    (ps_pc = "done" /\ CommandInPlace(ps_lines)) =>
        IF ReadFaultMet(ps_lines, ps_end) THEN ps_ret.err = ErrTransport
        ELSE IF DecodeFaultMet(ps_lines) THEN ps_ret.err.type \in DecodeFaults
        ELSE IF LastErrno(ps_lines) # 0
        THEN ps_ret.err.type = "protocol" /\ ps_ret.err.num = LastErrno(ps_lines)
        ELSE ps_ret.err = (IF LeadingErrors(Taken(ps_lines)) < Len(Taken(ps_lines))
                           THEN NoErr ELSE ErrCommand)

C14_Witness ==
    /\ ps_pc = "done" /\ ps_lines = <<L_cmd, L_errno12, L_ipv4Bad>> /\ ps_end = "blank"
    /\ ps_ret.err.type = "badIPv4"

\* ------------------------------------------- Client.RequestIP (Spec)
\* the requests a caller passes: none, an address, a lease start, a lease time
ClientRequests ==
    {NilRequestIP,
     PtrTo([ZeroRequestIP EXCEPT !.IPv4 = IPNetOf(4, 1, AddrBits)]),
     PtrTo([ZeroRequestIP EXCEPT !.LeaseStart = UnixTime(1)]),
     PtrTo([ZeroRequestIP EXCEPT !.LeaseTime = 10 * Second])}

\* what a server answers: an assignment, a protocol error, another command,
\* a malformed line, nothing but the terminator, or nothing at all before
\* it closes the connection
Replies ==
    {ResponseStream(l, "blank") :
        l \in {<<L_cmd, L_ipv4, L_leasetime>>, <<L_cmd, L_errno12, L_errmsg>>,
               <<L_foo>>, <<L_cmd, L_nopair>>, <<>>}}
    \cup {ResponseStream(<<>>, "eof")}

\* what a read on the connection can meet: a reply, or no data and the
\* timeout of a deadline in the past, or no data and a failure of the network
TimedOut == StreamOf(<<>>, ErrTimeout)
Broken == StreamOf(<<>>, ErrTransport)
\* the failure of the network after the first line of the response
BrokenMid == ResponseStream(<<L_cmd>>, "fault")

\* readResponse on each of them (a table, so that it is computed once)
fnRead == [r \in Replies \cup {TimedOut, Broken, BrokenMid} |-> readResponse(r)]

Init ==
    /\ req \in ClientRequests
    /\ ctxErr = "nil" /\ conn = "none" /\ connDeadline = "none"
    /\ doneC = "open" /\ wg = 0 /\ mpc = "call" /\ wpc = "none"
    /\ sent = <<>> /\ reply = NoReply /\ fnRes = NoResult /\ ret = NoResult
    /\ dials = 0 /\ watchers = 0 /\ faulted = FALSE
    /\ rtIdle /\ psIdle /\ kpIdle /\ svIdle

\* execute: d.DialContext(ctx, ...). A context that is already done fails
\* the dial, and RequestIP returns (nil, err).
Dial ==
    /\ mpc = "call"
    /\ dials' = dials + 1
    /\ IF ctxErr # "nil"
       THEN /\ ret' = [rip |-> NilRequestIP,
                       err |-> IF ctxErr = "deadline" THEN ErrTimeout ELSE ErrDialCanceled]
            /\ mpc' = "returned" /\ conn' = conn
       ELSE /\ conn' = "open" /\ mpc' = "spawn" /\ ret' = ret
    /\ UNCHANGED <<req, ctxErr, connDeadline, doneC, wg, wpc, sent, reply, fnRes,
                   watchers, faulted, rtVars, psVars, kpVars, svVars>>

\* the dial fails for a reason of the network
DialFault ==
    /\ mpc = "call" /\ ctxErr = "nil"
    /\ dials' = dials + 1
    /\ ret' = [rip |-> NilRequestIP, err |-> ErrTransport]
    /\ mpc' = "returned" /\ faulted' = TRUE
    /\ UNCHANGED <<req, ctxErr, conn, connDeadline, doneC, wg, wpc, sent, reply,
                   fnRes, watchers, rtVars, psVars, kpVars, svVars>>

\* execute: wg.Add(1), doneC made, the deferred close and wait registered,
\* the watcher goroutine started
Spawn ==
    /\ mpc = "spawn"
    /\ wg' = wg + 1 /\ wpc' = "select" /\ watchers' = watchers + 1
    /\ mpc' = "send"
    /\ UNCHANGED <<req, ctxErr, conn, connDeadline, doneC, sent, reply, fnRes, ret,
                   dials, faulted, rtVars, psVars, kpVars, svVars>>

\* fn: sendRequestIP(rw, req); a write on a connection whose deadline is in
\* the past fails with a timeout
Send ==
    /\ mpc = "send"
    /\ IF connDeadline = "past"
       THEN /\ fnRes' = [rip |-> NilRequestIP, err |-> ErrTimeout]
            /\ mpc' = "deferred" /\ sent' = sent
       ELSE /\ sent' = sendRequestIP(req) /\ mpc' = "read" /\ fnRes' = fnRes
    /\ UNCHANGED <<req, ctxErr, conn, connDeadline, doneC, wg, wpc, reply, ret,
                   dials, watchers, faulted, rtVars, psVars, kpVars, svVars>>

\* the write fails for a reason of the network
SendFault ==
    /\ mpc = "send" /\ connDeadline # "past"
    /\ fnRes' = [rip |-> NilRequestIP, err |-> ErrTransport]
    /\ mpc' = "deferred" /\ faulted' = TRUE
    /\ UNCHANGED <<req, ctxErr, conn, connDeadline, doneC, wg, wpc, sent, reply, ret,
                   dials, watchers, rtVars, psVars, kpVars, svVars>>

\* fn: parse, the check of the command, parseRequestIP. The read blocks
\* until the reply is there or the deadline is in the past; with the
\* deadline in the past it fails with a timeout.
Read ==
    /\ mpc = "read"
    /\ connDeadline = "past" \/ reply.has
    /\ fnRes' = IF connDeadline = "past" THEN fnRead[TimedOut] ELSE fnRead[reply.r]
    /\ mpc' = "deferred"
    /\ UNCHANGED <<req, ctxErr, conn, connDeadline, doneC, wg, wpc, sent, reply, ret,
                   dials, watchers, faulted, rtVars, psVars, kpVars, svVars>>

\* the read fails for a reason of the network
ReadFault ==
    /\ mpc = "read" /\ connDeadline # "past"
    /\ \E r \in {Broken, BrokenMid} : fnRes' = fnRead[r]
    /\ mpc' = "deferred" /\ faulted' = TRUE
    /\ UNCHANGED <<req, ctxErr, conn, connDeadline, doneC, wg, wpc, sent, reply, ret,
                   dials, watchers, rtVars, psVars, kpVars, svVars>>

\* the deferred function waiting without closing doneC
CloseDone_NoSignal ==
    /\ mpc = "deferred"
    /\ mpc' = "wait"
    /\ UNCHANGED <<req, ctxErr, conn, connDeadline, doneC, wg, wpc, sent, reply, fnRes, ret,
                   dials, watchers, faulted, rtVars, psVars, kpVars, svVars>>

\* the deferred calls in the other order: conn.Close() runs before the
\* done signal and the wait
CloseDone_ConnFirst ==
    /\ mpc = "deferred"
    /\ conn' = "closed" /\ doneC' = "closed" /\ mpc' = "wait"
    /\ UNCHANGED <<req, ctxErr, connDeadline, wg, wpc, sent, reply, fnRes, ret,
                   dials, watchers, faulted, rtVars, psVars, kpVars, svVars>>

\* execute's deferred function: close(doneC)
CloseDone ==
    /\ mpc = "deferred"
    /\ doneC' = "closed" /\ mpc' = "wait"
    /\ UNCHANGED <<req, ctxErr, conn, connDeadline, wg, wpc, sent, reply, fnRes, ret,
                   dials, watchers, faulted, rtVars, psVars, kpVars, svVars>>

\* the deferred function without the wait for the watcher
Wait_NoJoin ==
    /\ mpc = "wait"
    /\ mpc' = "close"
    /\ UNCHANGED <<req, ctxErr, conn, connDeadline, doneC, wg, wpc, sent, reply, fnRes,
                   ret, dials, watchers, faulted, rtVars, psVars, kpVars, svVars>>

\* execute's deferred function: wg.Wait()
Wait ==
    /\ mpc = "wait" /\ wg = 0
    /\ mpc' = "close"
    /\ UNCHANGED <<req, ctxErr, conn, connDeadline, doneC, wg, wpc, sent, reply, fnRes,
                   ret, dials, watchers, faulted, rtVars, psVars, kpVars, svVars>>

\* the connection closed only after an exchange that succeeded
CloseConn_OnSuccessOnly ==
    /\ mpc = "close"
    /\ conn' = (IF fnRes.err = NoErr THEN "closed" ELSE conn) /\ mpc' = "return"
    /\ UNCHANGED <<req, ctxErr, connDeadline, doneC, wg, wpc, sent, reply, fnRes, ret,
                   dials, watchers, faulted, rtVars, psVars, kpVars, svVars>>

\* execute's deferred conn.Close()
CloseConn ==
    /\ mpc = "close"
    /\ conn' = "closed" /\ mpc' = "return"
    /\ UNCHANGED <<req, ctxErr, connDeadline, doneC, wg, wpc, sent, reply, fnRes, ret,
                   dials, watchers, faulted, rtVars, psVars, kpVars, svVars>>

\* RequestIP dialling again after a transport error
Return_Retries ==
    /\ mpc = "return"
    /\ IF fnRes.err = ErrTransport
       THEN mpc' = "call" /\ ret' = ret
       ELSE /\ ret' = (IF fnRes.err # NoErr THEN [rip |-> NilRequestIP, err |-> fnRes.err]
                       ELSE fnRes)
            /\ mpc' = "returned"
    /\ UNCHANGED <<req, ctxErr, conn, connDeadline, doneC, wg, wpc, sent, reply, fnRes,
                   dials, watchers, faulted, rtVars, psVars, kpVars, svVars>>

\* RequestIP decoding the response into the caller's request
Return_IntoRequest ==
    /\ mpc = "return"
    /\ ret' = IF fnRes.err # NoErr THEN [rip |-> NilRequestIP, err |-> fnRes.err] ELSE fnRes
    /\ req' = IF fnRes.err = NoErr /\ ~req.nil THEN fnRes.rip ELSE req
    /\ mpc' = "returned"
    /\ UNCHANGED <<ctxErr, conn, connDeadline, doneC, wg, wpc, sent, reply, fnRes,
                   dials, watchers, faulted, rtVars, psVars, kpVars, svVars>>

\* execute returning the context's error when the context is done
Return_ContextFirst ==
    /\ mpc = "return"
    /\ ret' = IF ctxErr # "nil" THEN [rip |-> NilRequestIP, err |-> ErrOf(ctxErr, 0, <<>>)]
              ELSE IF fnRes.err # NoErr THEN [rip |-> NilRequestIP, err |-> fnRes.err]
              ELSE fnRes
    /\ mpc' = "returned"
    /\ UNCHANGED <<req, ctxErr, conn, connDeadline, doneC, wg, wpc, sent, reply, fnRes,
                   dials, watchers, faulted, rtVars, psVars, kpVars, svVars>>

\* execute returns fn's error and RequestIP returns (nil, err) or (rip, nil)
Return ==
    /\ mpc = "return"
    /\ ret' = IF fnRes.err # NoErr THEN [rip |-> NilRequestIP, err |-> fnRes.err] ELSE fnRes
    /\ mpc' = "returned"
    /\ UNCHANGED <<req, ctxErr, conn, connDeadline, doneC, wg, wpc, sent, reply, fnRes,
                   dials, watchers, faulted, rtVars, psVars, kpVars, svVars>>

\* the watcher's select: case <-ctx.Done()
WatchCtx ==
    /\ wpc = "select" /\ ctxErr # "nil"
    /\ wpc' = "setdeadline"
    /\ UNCHANGED <<req, ctxErr, conn, connDeadline, doneC, wg, mpc, sent, reply, fnRes,
                   ret, dials, watchers, faulted, rtVars, psVars, kpVars, svVars>>

\* the watcher setting a deadline that is not in the past
WatchSetDeadline_Future ==
    /\ wpc = "setdeadline"
    /\ wpc' = "exit"
    /\ UNCHANGED <<req, ctxErr, conn, connDeadline, doneC, wg, mpc, sent, reply, fnRes, ret,
                   dials, watchers, faulted, rtVars, psVars, kpVars, svVars>>

\* the watcher: conn.SetDeadline(deadlineNow)
WatchSetDeadline ==
    /\ wpc = "setdeadline"
    /\ connDeadline' = IF conn = "open" THEN "past" ELSE connDeadline
    /\ wpc' = "exit"
    /\ UNCHANGED <<req, ctxErr, conn, doneC, wg, mpc, sent, reply, fnRes, ret, dials,
                   watchers, faulted, rtVars, psVars, kpVars, svVars>>

\* the watcher's select with the doneC case running on to SetDeadline
WatchDone_SetsDeadline ==
    /\ wpc = "select" /\ doneC = "closed"
    /\ wpc' = "setdeadline"
    /\ UNCHANGED <<req, ctxErr, conn, connDeadline, doneC, wg, mpc, sent, reply, fnRes,
                   ret, dials, watchers, faulted, rtVars, psVars, kpVars, svVars>>

\* the watcher's select: case <-doneC
WatchDone ==
    /\ wpc = "select" /\ doneC = "closed"
    /\ wpc' = "exit"
    /\ UNCHANGED <<req, ctxErr, conn, connDeadline, doneC, wg, mpc, sent, reply, fnRes,
                   ret, dials, watchers, faulted, rtVars, psVars, kpVars, svVars>>

\* the watcher's deferred wg.Done()
WatchExit ==
    /\ wpc = "exit"
    /\ wg' = wg - 1 /\ wpc' = "done"
    /\ UNCHANGED <<req, ctxErr, conn, connDeadline, doneC, mpc, sent, reply, fnRes, ret,
                   dials, watchers, faulted, rtVars, psVars, kpVars, svVars>>

\* the caller cancels the context
Cancel ==
    /\ ctxErr = "nil" /\ mpc # "returned"
    /\ ctxErr' = "canceled"
    /\ UNCHANGED <<req, conn, connDeadline, doneC, wg, mpc, wpc, sent, reply, fnRes, ret,
                   dials, watchers, faulted, rtVars, psVars, kpVars, svVars>>

\* the deadline of the context passes
DeadlineExceeded ==
    /\ ctxErr = "nil" /\ mpc # "returned"
    /\ ctxErr' = "deadline"
    /\ UNCHANGED <<req, conn, connDeadline, doneC, wg, mpc, wpc, sent, reply, fnRes, ret,
                   dials, watchers, faulted, rtVars, psVars, kpVars, svVars>>

\* the server, having the request, writes its response
ServerReply ==
    /\ conn = "open" /\ sent # <<>> /\ ~reply.has
    /\ \E r \in Replies : reply' = [has |-> TRUE, r |-> r]
    /\ UNCHANGED <<req, ctxErr, conn, connDeadline, doneC, wg, mpc, wpc, sent, fnRes, ret,
                   dials, watchers, faulted, rtVars, psVars, kpVars, svVars>>

\* the steps of the calling goroutine and of the watcher goroutine
MainStep == Dial \/ Spawn \/ Send \/ Read \/ CloseDone \/ Wait \/ CloseConn \/ Return
WatcherStep == WatchCtx \/ WatchSetDeadline \/ WatchDone \/ WatchExit

Next ==
    \/ Dial \/ DialFault \/ Spawn \/ Send \/ SendFault \/ Read \/ ReadFault
    \/ CloseDone \/ Wait \/ CloseConn \/ Return
    \/ WatchCtx \/ WatchSetDeadline \/ WatchDone \/ WatchExit
    \/ Cancel \/ DeadlineExceeded \/ ServerReply

Spec == Init /\ [][Next]_vars

\* both goroutines keep running: the Go scheduler starves neither
SpecFair == Spec /\ WF_vars(MainStep) /\ WF_vars(WatcherStep)

\* ---- claims about Client.RequestIP and Client.execute

\* the context is done, the connection stands and the server has not replied
CancelPending == mpc \in {"spawn", "send", "read"} /\ ctxErr # "nil" /\ ~reply.has

C6_CancelCausePreserved ==
    (/\ mpc = "returned" /\ conn # "none" /\ sent # <<>>
     /\ ctxErr = "canceled" /\ ~reply.has /\ ~faulted)
      => ret.err.type = "canceled"

\* C7: RequestIP with a request whose LeaseStart is set dials no connection
\* and writes nothing.
C7_LeaseStartRejected ==
    (~req.nil /\ ~TimeIsZero(req.v.LeaseStart))
      => (dials = 0 /\ conn = "none" /\ sent = <<>>)

\* C8: a call that established a connection started exactly one watcher,
\* and the watcher has terminated when the call returns.
C8_OneWatcherJoined ==
    /\ watchers <= 1
    /\ (mpc = "returned" /\ conn # "none") => (watchers = 1 /\ wpc = "done" /\ wg = 0)

C8_Witness ==
    /\ mpc = "returned" /\ conn = "closed" /\ watchers = 1 /\ wpc = "done"
    /\ ctxErr = "canceled" /\ ret.err = ErrTimeout

\* C9: the connection execute opened is closed when the call returns, on
\* every path.
C9_ConnClosedOnReturn ==
    /\ dials <= 1
    /\ mpc = "returned" => conn # "open"

C9_Witness ==
    /\ mpc = "returned" /\ conn = "closed" /\ dials = 1
    /\ ret.err = ErrCommand /\ ctxErr = "nil"

\* C10: the watcher forces the deadline only after the context is done; in
\* a call whose context is not done the deadline is never forced and no
\* read or write times out.
C10_DeadlineOnlyAfterCancel ==
    /\ (wpc = "setdeadline" \/ connDeadline = "past") => ctxErr # "nil"
    /\ ctxErr = "nil" => (fnRes.err # ErrTimeout /\ ret.err # ErrTimeout)

C10_Witness ==
    /\ connDeadline = "past" /\ ctxErr = "deadline" /\ mpc = "read" /\ wpc = "done"

\* ------------------------------------------- kvParser call by call (SpecKV)
\* values: an IPv4 CIDR, an IPv6 CIDR, an IPv4-mapped IPv6 CIDR whose mask
\* keeps the mapping prefix
V_v4 == <<"0", ".", "1", "/", "2">>
V_v6 == <<":", ":", "1", "/", "1">>
V_mapped == <<":", ":">> \o ItoaNat(Pow2(AddrBits) - 1) \o <<"/">> \o ItoaNat(AddrBits)
L_mapped == Ln(K_ipv6, V_mapped)
L_errmsgEq == Ln(K_errmsg, <<"a", "=", "b">>)

KVLinePool == {L_foo, L_errno12, L_errmsg, L_ipv4, L_ipv6, L_mapped, L_nopair, L_errmsgEq}
KVLineSeqs == UNION {[1..n -> KVLinePool] : n \in 0..MaxLines}

\* how the stream ends: as a response does, or inside its last line, which
\* then has no newline, with a read fault ("cut") or cleanly ("cuteof")
KVEnds == StreamEnds \cup {"cut", "cuteof"}
KVStream(lines, end) ==
    IF end \in {"cut", "cuteof"} /\ Len(lines) > 0
    THEN StreamOf(SubSeq(Flatten(lines), 1, Len(Flatten(lines)) - 1),
                  IF end = "cut" THEN ErrTransport ELSE NoErr)
    ELSE StreamOf(Flatten(lines) \o (IF end = "blank" THEN <<NL>> ELSE <<>>),
                  IF end \in {"fault", "cut"} THEN ErrTransport ELSE NoErr)

InitKV ==
    /\ kp_lines \in KVLineSeqs
    /\ kp_end \in KVEnds
    /\ kp_p = newKVParser(KVStream(kp_lines, kp_end))
    /\ kp_op = "new" /\ kp_ok = FALSE /\ kp_val = NoVal /\ kp_calls = 0
    /\ kp_stuck = [set |-> FALSE, err |-> NoErr]
    /\ rtIdle /\ psIdle /\ exIdle /\ svIdle

\* p.Next(), at most two calls past the lines of the stream
KVNext ==
    /\ kp_op # "idle" /\ kp_calls < MaxLines + 2
    /\ LET n == kvNext(kp_p)
       IN  /\ kp_p' = n.p /\ kp_ok' = n.ok
           /\ kp_stuck' = IF ~kp_stuck.set /\ ~n.ok /\ kvErr(n.p).type = "malformed"
                          THEN [set |-> TRUE, err |-> kvErr(n.p)] ELSE kp_stuck
    /\ kp_op' = "Next" /\ kp_val' = NoVal /\ kp_calls' = kp_calls + 1
    /\ UNCHANGED <<kp_lines, kp_end, rtVars, psVars, exVars, svVars>>

\* p.Int()
KVInt ==
    /\ kp_op # "idle"
    /\ kp_p' = kvInt(kp_p).p
    /\ kp_val' = [NoVal EXCEPT !.int = kvInt(kp_p).val]
    /\ kp_op' = "Int"
    /\ UNCHANGED <<kp_lines, kp_end, kp_ok, kp_calls, kp_stuck, rtVars, psVars, exVars, svVars>>

\* p.String()
KVString ==
    /\ kp_op # "idle"
    /\ kp_val' = [NoVal EXCEPT !.str = kvString(kp_p)]
    /\ kp_op' = "String"
    /\ UNCHANGED <<kp_lines, kp_end, kp_p, kp_ok, kp_calls, kp_stuck, rtVars, psVars,
                   exVars, svVars>>

\* p.IPNet(4) and p.IPNet(6)
KVIPNet ==
    /\ kp_op # "idle"
    /\ \E family \in {4, 6} :
          /\ kp_p' = kvIPNet(kp_p, family).p
          /\ kp_val' = [NoVal EXCEPT !.ipn = kvIPNet(kp_p, family).val]
          /\ kp_op' = IF family = 4 THEN "IPNet4" ELSE "IPNet6"
    /\ UNCHANGED <<kp_lines, kp_end, kp_ok, kp_calls, kp_stuck, rtVars, psVars, exVars, svVars>>

NextKV == KVNext \/ KVInt \/ KVString \/ KVIPNet
SpecKV == InitKV /\ [][NextKV]_vars

\* C15: once Next has stopped at a malformed pair, every later call of Next
\* returns false and Err keeps returning the error it returned then,
\* whatever lines follow and whatever accessors are called (stated of the
\* streams that no read fault ends).
C15_MalformedSticky ==
    (kp_stuck.set /\ kp_end \notin {"fault", "cut"})
        => ((kp_op = "Next" => ~kp_ok) /\ kvErr(kp_p) = kp_stuck.err)

\* ---- a line as read, described without the parser
CountSep(line) == Cardinality({i \in 1..Len(line) : line[i] = "="})
KeyOf(line) == SubSeq(line, 1, IndexOf(line, "=") - 1)
IsErrorPair(line) == CountSep(line) = 1 /\ KeyOf(line) \in {K_errno, K_errmsg}
\* the number of errno and errmsg pairs the stream starts with
RECURSIVE LeadingErrorPairs(_)
LeadingErrorPairs(b) == IF Len(b) > 0 /\ IsErrorPair(Head(b))
                        THEN 1 + LeadingErrorPairs(Tail(b)) ELSE 0
\* the first call of Next has returned, and the line it decided on (the
\* first that is no errno or errmsg pair) is line d, not empty
FirstNextOn(d) ==
    /\ kp_op = "Next" /\ kp_calls = 1
    /\ d = LeadingErrorPairs(kp_lines) + 1 /\ d <= Len(kp_lines)
    /\ kp_lines[d] # L_blank

\* C16 as claimed: Next accepts a non-empty line exactly when it holds
\* exactly one "="; on a line with none or with two or more, Next returns
\* false and Err returns the malformed key/value pair error.
C16_ExactlyOneSep ==
    \A d \in 1..Len(kp_lines) : FirstNextOn(d) =>
        /\ kp_ok <=> CountSep(kp_lines[d]) = 1
        /\ CountSep(kp_lines[d]) # 1 => kvErr(kp_p) = ErrMalformed(kp_lines[d])

\* C16 amended: Next accepts a non-empty line exactly when it holds exactly
\* one "="; on a line with none or with two or more, Next returns false,
\* and Err returns the malformed key/value pair error unless the read of
\* the stream failed inside that line, when Err returns the read fault.
C16_ExactlyOneSepOrReadFault ==
    \A d \in 1..Len(kp_lines) : FirstNextOn(d) =>
        /\ kp_ok <=> CountSep(kp_lines[d]) = 1
        /\ CountSep(kp_lines[d]) # 1 =>
              kvErr(kp_p) = (IF kp_end = "cut" /\ d = Len(kp_lines)
                             THEN ErrTransport ELSE ErrMalformed(kp_lines[d]))

C16_Witness ==
    /\ FirstNextOn(2) /\ kp_lines = <<L_errmsg, L_errmsgEq>> /\ kp_end = "blank"
    /\ ~kp_ok /\ kvErr(kp_p) = ErrMalformed(L_errmsgEq)

\* C17: whenever Next returns true, the current key is neither errno nor
\* errmsg, wherever the errno and errmsg lines stand in the stream.
C17_ErrorKeysHidden ==
    (kp_op = "Next" /\ kp_ok) => kvKey(kp_p) \notin {K_errno, K_errmsg}

C17_Witness ==
    /\ kp_op = "Next" /\ kp_ok /\ kp_calls = 1
    /\ kp_lines[1] = L_errno12 /\ kp_lines[2] = L_errmsg /\ kvKey(kp_p) = K_foo

\* ---- the values IPNet is called on
V6CIDRs == {V_v6, V_mapped}
V4CIDRs == {V_v4}
NoCIDRs == {<<"1">>, <<"1", "2">>, <<"m">>, <<>>}
IPNetFailed == kp_val.ipn = NilIPNet /\ kvErr(kp_p) # NoErr

\* C18 as claimed: IPNet(4) on a value that parses as an IPv6 CIDR, IPNet(6)
\* on a value that parses as an IPv4 CIDR, and either on a value that parses
\* as no CIDR, returns no address and leaves an error for Err to report.
C18_FamilyMismatch ==
    /\ (kp_op = "IPNet4" /\ kp_p.v \in V6CIDRs) => IPNetFailed
    /\ (kp_op = "IPNet6" /\ kp_p.v \in V4CIDRs) => IPNetFailed
    /\ (kp_op \in {"IPNet4", "IPNet6"} /\ kp_p.v \in NoCIDRs) => IPNetFailed

\* C18 amended: the family is that of the network address under
\* net.IP.To4, so an IPv4-mapped IPv6 CIDR whose mask keeps the mapping
\* prefix counts as IPv4: IPNet(4) fails on every other IPv6 CIDR, IPNet(6)
\* fails on an IPv4 CIDR and on such an IPv4-mapped one, either fails on a
\* value that parses as no CIDR; failing is returning no address and
\* leaving an error for Err to report.
C18_FamilyMismatchByTo4 ==
    /\ (kp_op = "IPNet4" /\ kp_p.v \in V6CIDRs \ {V_mapped}) => IPNetFailed
    /\ (kp_op = "IPNet6" /\ kp_p.v \in V4CIDRs \cup {V_mapped}) => IPNetFailed
    /\ (kp_op \in {"IPNet4", "IPNet6"} /\ kp_p.v \in NoCIDRs) => IPNetFailed

C18_Witness ==
    /\ kp_op = "IPNet4" /\ kp_p.v = V_v6 /\ kp_val.ipn = NilIPNet
    /\ kvErr(kp_p) = ErrBadIPv4(V_v6)

\* ------------------------------------------- the request as written
\* the keys of the fields that are present in a request, in the order of
\* the wire format: an address that is not nil, a lease start that is not
\* the zero time, a lease time above zero
PresentKeys(rip) ==
    IF rip.nil THEN <<>>
    ELSE (IF rip.v.IPv4 # NilIPNet THEN <<K_ipv4>> ELSE <<>>)
         \o (IF rip.v.IPv6 # NilIPNet THEN <<K_ipv6>> ELSE <<>>)
         \o (IF ~TimeIsZero(rip.v.LeaseStart) THEN <<K_leasestart>> ELSE <<>>)
         \o (IF rip.v.LeaseTime > 0 THEN <<K_leasetime>> ELSE <<>>)
\* the lines of a text, the newlines taken out
WireLines(w) == Split(w, NL)

\* C19: sendRequestIP writes request_ip=1 first, then exactly the present
\* fields in the order ipv4, ipv6, leasestart, leasetime, each once and with
\* a value, then one blank line; with no field present the output is
\* exactly request_ip=1\n\n.
C19_RequestLayout ==
    rt_pc # "start" =>
        LET ls == WireLines(rt_wire)
            n == Len(PresentKeys(rt_in))
        IN  /\ Len(ls) = n + 3
            /\ ls[1] = L_cmd
            /\ \A i \in 1..n : /\ CountSep(ls[i + 1]) = 1
                               /\ KeyOf(ls[i + 1]) = PresentKeys(rt_in)[i]
                               /\ Len(ls[i + 1]) > Len(KeyOf(ls[i + 1])) + 1
            /\ ls[n + 2] = <<>> /\ ls[n + 3] = <<>>
            /\ n = 0 => rt_wire = K_request_ip \o <<"=", "1", NL, NL>>

C19_Witness ==
    /\ rt_pc = "sent"
    /\ PresentKeys(rt_in) = <<K_ipv4, K_leasetime>>
    /\ Len(WireLines(rt_wire)) = 5

\* ------------------------------------------- unknown keys in a response
\* the pairs parseRequestIP has no case for
UnknownLines == {L_foo, L_cmd}
RECURSIVE Without(_, _)
Without(lines, S) ==
    IF Len(lines) = 0 THEN <<>>
    ELSE (IF Head(lines) \in S THEN <<>> ELSE <<Head(lines)>>) \o Without(Tail(lines), S)
\* the response with the pairs of unknown key after its command taken out
Stripped(lines) ==
    LET k == LeadingErrors(lines) + 1
    IN  SubSeq(lines, 1, k) \o Without(SubSeq(lines, k + 1, Len(lines)), UnknownLines)
\* the response starts (after errno and errmsg pairs) with the command and
\* holds a pair of unknown key among the lines taken in after it
HasUnknownPair(lines) ==
    LET t == Taken(lines)
        k == LeadingErrors(t) + 1
    IN  /\ k <= Len(t) /\ t[k] = L_cmd
        /\ \E i \in (k + 1)..Len(t) : t[i] \in UnknownLines

\* C20: a response with well-formed pairs of keys other than ipv4, ipv6,
\* leasestart, leasetime, errno and errmsg is decoded to what the same
\* response without those pairs is decoded to: the same RequestIP and no
\* error where that one is decoded without error.
C20_UnknownKeysIgnored ==
    (ps_pc = "done" /\ HasUnknownPair(ps_lines)) =>
        /\ ps_ret = readResponse(ResponseStream(Stripped(ps_lines), ps_end))
        /\ (~DecodeFaultMet(ps_lines) /\ ~ReadFaultMet(ps_lines, ps_end)
              /\ LastErrno(ps_lines) = 0) => ps_ret.err = NoErr

C20_Witness ==
    /\ ps_pc = "done" /\ ps_lines = <<L_cmd, L_foo, L_ipv4>> /\ ps_end = "blank"
    /\ ps_ret.err = NoErr /\ ps_ret.rip.v.IPv4 # NilIPNet

\* ------------------------------------------- the Server (SpecServer)
\* One accepted connection of the Server Dispatcher: decode one command,
\* call the handler, write one response, close.

\* the text of the internal error
InternalMsg == <<"I", "n", "t", "e", "r", "n", "a", "l", " ", "s", "e", "r",
                 "v", "e", "r", " ", "e", "r", "r", "o", "r">>
\* the one response sent for every fault: errno 1 and the fixed text, under
\* the command marker
InternalErrorBytes ==
    KVLine(K_request_ip, <<"1">>) \o KVLine(K_errno, <<"1">>)
        \o KVLine(K_errmsg, InternalMsg) \o <<NL>>

\* the handlers registered: none, one that fails (with one text or
\* another), one that grants what was asked with the lease filled in, one
\* that assigns an address when none was asked for and fails otherwise
Handlers ==
    {NoHandler,
     [kind |-> "err", text |-> <<"e", "1">>],
     [kind |-> "err", text |-> <<"e", "2", "2">>],
     [kind |-> "echo", text |-> <<>>],
     [kind |-> "assign", text |-> <<"n", "o">>]}

\* the lease a handler grants
Granted == [ZeroRequestIP EXCEPT !.IPv4 = IPNetOf(4, 1, AddrBits),
                                 !.LeaseStart = UnixTime(1), !.LeaseTime = 10 * Second]

\* the handler called with the decoded request r: the response or the error
HandlerResult(h, r) ==
    IF h.kind = "err" THEN [ok |-> FALSE, res |-> NilRequestIP, text |-> h.text]
    ELSE IF h.kind = "echo"
    THEN [ok |-> TRUE, text |-> <<>>,
          res |-> PtrTo([r.v EXCEPT !.LeaseStart = Granted.LeaseStart,
                                    !.LeaseTime = Granted.LeaseTime])]
    ELSE IF r.v.IPv4 # NilIPNet \/ r.v.IPv6 # NilIPNet
    THEN [ok |-> FALSE, res |-> NilRequestIP, text |-> h.text]
    ELSE [ok |-> TRUE, res |-> PtrTo(Granted), text |-> <<>>]

\* what a peer sends: the requests Client.RequestIP writes, and streams
\* that do not decode: another command, a line that is no pair, a field
\* whose value does not parse, a request cut by a read fault
GoodRequests == {StreamOf(sendRequestIP(r), NoErr) : r \in ClientRequests}
BadRequests ==
    {ResponseStream(<<L_foo>>, "blank"), ResponseStream(<<L_nopair>>, "blank"),
     ResponseStream(<<L_cmd, L_ipv4Bad>>, "blank"), ResponseStream(<<L_cmd, L_nopair>>, "blank"),
     ResponseStream(<<L_cmd>>, "fault")}

\* the further commands a peer may queue on the connection
MaxQueued == 1

InitServer ==
    /\ sv_pc = "accept" /\ sv_conn = "open"
    /\ sv_handler \in Handlers
    /\ sv_in \in GoodRequests \cup BadRequests
    /\ sv_more \in 0..MaxQueued
    /\ sv_req = NoResult /\ sv_cause = "none" /\ sv_res = <<>> /\ sv_out = <<>>
    /\ sv_served = 0 /\ sv_writes = 0 /\ cl_ret = NoResult
    /\ rtIdle /\ psIdle /\ exIdle /\ kpIdle

\* step 1: the one command is decoded; a stream that does not decode, a
\* command that is not known and a command without a handler are answered
\* with the internal error
SvDecode ==
    /\ sv_pc = "accept"
    /\ sv_served' = sv_served + 1
    /\ LET h == parse(sv_in)
           r == parseRequestIP(h.p)
       IN  IF ~h.ok \/ h.err # NoErr \/ h.cmd # K_request_ip
           THEN /\ sv_cause' = "decode" /\ sv_res' = InternalErrorBytes
                /\ sv_pc' = "write" /\ sv_req' = sv_req
           ELSE IF sv_handler.kind = "nil"
           THEN /\ sv_cause' = "nohandler" /\ sv_res' = InternalErrorBytes
                /\ sv_pc' = "write" /\ sv_req' = sv_req
           ELSE IF r.err # NoErr
           THEN /\ sv_cause' = "decode" /\ sv_res' = InternalErrorBytes
                /\ sv_pc' = "write" /\ sv_req' = r
           ELSE /\ sv_pc' = "handle" /\ sv_req' = r
                /\ UNCHANGED <<sv_cause, sv_res>>
    /\ UNCHANGED <<sv_handler, sv_in, sv_out, sv_conn, sv_writes, sv_more, cl_ret,
                   rtVars, psVars, exVars, kpVars>>

\* step 2 with the text of the handler's error put into the response
SvHandle_ForwardsText ==
    /\ sv_pc = "handle"
    /\ LET o == HandlerResult(sv_handler, sv_req.rip)
       IN  IF o.ok THEN sv_res' = sendRequestIP(o.res) /\ sv_cause' = sv_cause
           ELSE /\ sv_cause' = "handler"
                /\ sv_res' = KVLine(K_request_ip, <<"1">>) \o KVLine(K_errno, <<"1">>)
                                \o KVLine(K_errmsg, o.text) \o <<NL>>
    /\ sv_pc' = "write"
    /\ UNCHANGED <<sv_handler, sv_in, sv_req, sv_out, sv_conn, sv_served, sv_writes,
                   sv_more, cl_ret, rtVars, psVars, exVars, kpVars>>

\* step 2: the handler is called with the decoded request; its response is
\* encoded, its error is answered with the internal error
SvHandle ==
    /\ sv_pc = "handle"
    /\ LET o == HandlerResult(sv_handler, sv_req.rip)
       IN  IF o.ok THEN sv_res' = sendRequestIP(o.res) /\ sv_cause' = sv_cause
           ELSE sv_cause' = "handler" /\ sv_res' = InternalErrorBytes
    /\ sv_pc' = "write"
    /\ UNCHANGED <<sv_handler, sv_in, sv_req, sv_out, sv_conn, sv_served, sv_writes,
                   sv_more, cl_ret, rtVars, psVars, exVars, kpVars>>

\* step 3: the response is written
SvWrite ==
    /\ sv_pc = "write"
    /\ sv_out' = sv_out \o sv_res /\ sv_writes' = sv_writes + 1
    /\ sv_pc' = "close"
    /\ UNCHANGED <<sv_handler, sv_in, sv_req, sv_cause, sv_res, sv_conn, sv_served,
                   sv_more, cl_ret, rtVars, psVars, exVars, kpVars>>

\* step 3, the write failing: nothing or only the first line reaches the peer
SvWriteFault ==
    /\ sv_pc = "write"
    /\ \E n \in {0, IndexOf(sv_res, NL)} : sv_out' = sv_out \o SubSeq(sv_res, 1, n)
    /\ sv_writes' = sv_writes + 1
    /\ sv_pc' = "close"
    /\ UNCHANGED <<sv_handler, sv_in, sv_req, sv_cause, sv_res, sv_conn, sv_served,
                   sv_more, cl_ret, rtVars, psVars, exVars, kpVars>>

\* the connection kept open for the commands the peer has queued
SvClose_KeepAlive ==
    /\ sv_pc = "close"
    /\ IF sv_more > 0
       THEN sv_pc' = "accept" /\ sv_more' = sv_more - 1 /\ sv_conn' = sv_conn
       ELSE sv_pc' = "done" /\ sv_conn' = "closed" /\ sv_more' = sv_more
    /\ UNCHANGED <<sv_handler, sv_in, sv_req, sv_cause, sv_res, sv_out, sv_served,
                   sv_writes, cl_ret, rtVars, psVars, exVars, kpVars>>

\* step 3: the connection is closed, whatever the write did and whatever
\* the peer has queued
SvClose ==
    /\ sv_pc = "close"
    /\ sv_pc' = "done" /\ sv_conn' = "closed"
    /\ UNCHANGED <<sv_handler, sv_in, sv_req, sv_cause, sv_res, sv_out, sv_served,
                   sv_writes, sv_more, cl_ret, rtVars, psVars, exVars, kpVars>>

\* the peer's Client.RequestIP decodes what arrived before the close
ClRead ==
    /\ sv_pc = "done"
    /\ cl_ret' = readResponse(StreamOf(sv_out, NoErr))
    /\ sv_pc' = "returned"
    /\ UNCHANGED <<sv_handler, sv_in, sv_req, sv_cause, sv_res, sv_out, sv_conn,
                   sv_served, sv_writes, sv_more, rtVars, psVars, exVars, kpVars>>

NextServer == SvDecode \/ SvHandle \/ SvWrite \/ SvWriteFault \/ SvClose \/ ClRead
SpecServer == InitServer /\ [][NextServer]_vars

\* C11: with no RequestIP handler registered, the client's RequestIP returns
\* the protocol error {1, "Internal server error"} and no RequestIP, whatever
\* the request was (the response having reached the client whole).
C11_NoHandlerInternalError ==
    (sv_pc = "returned" /\ sv_handler = NoHandler /\ sv_out = sv_res)
        => cl_ret = [rip |-> NilRequestIP, err |-> ErrOf("protocol", 1, InternalMsg)]

C11_Witness ==
    /\ sv_pc = "returned" /\ sv_handler = NoHandler /\ sv_out = sv_res
    /\ sv_in = StreamOf(sendRequestIP(PtrTo([ZeroRequestIP EXCEPT !.LeaseTime = 10 * Second])),
                        NoErr)
    /\ cl_ret.err.type = "protocol"

\* the response, or what a failed write let through of it, is the internal
\* error message and nothing else
OnlyInternalError ==
    /\ sv_res = InternalErrorBytes
    /\ sv_out \in {<<>>, SubSeq(InternalErrorBytes, 1, IndexOf(InternalErrorBytes, NL)),
                  InternalErrorBytes}

\* C12: when the handler returns an error or the request does not decode,
\* the bytes sent are those of the one errno=1 / errmsg=Internal server
\* error message, the same for every error text of the handler and every
\* cause of the decode failure.
C12_FaultsFlattened ==
    (sv_pc \in {"close", "done", "returned"}
        /\ (sv_in \in BadRequests
            \/ (sv_handler.kind = "err" /\ sv_in \in GoodRequests)))
        => OnlyInternalError

C12_Witness ==
    /\ sv_pc = "done" /\ sv_handler = [kind |-> "err", text |-> <<"e", "2", "2">>]
    /\ sv_cause = "handler" /\ sv_out = InternalErrorBytes

\* C13: on a connection at most one command is decoded and at most one
\* response written, and the connection is closed once that is done, also
\* when the write failed and also when the peer has more commands queued.
C13_OneCommandThenClose ==
    /\ sv_served <= 1 /\ sv_writes <= 1
    /\ sv_pc \in {"done", "returned"} => (sv_conn = "closed" /\ sv_served = 1)
    /\ sv_conn = "closed" => sv_pc \in {"done", "returned", "idle"}

C13_Witness ==
    /\ sv_pc = "done" /\ sv_conn = "closed" /\ sv_more = 1
    /\ sv_writes = 1 /\ sv_out # sv_res

\* ------------------------------------------- lease time on the wire (SpecCodec)
\* C25: a positive LeaseTime d is written as leasetime=floor(d / Second),
\* also when d is below one second, and that line is decoded to
\* floor(d / Second) seconds.
C25_WholeSecondsOnWire ==
    (rt_pc = "done" /\ ~rt_in.nil /\ rt_in.v.LeaseTime > 0)
    => LET f == rt_in.v.LeaseTime \div Second
       IN  /\ Ln(K_leasetime, ItoaNat(f)) \in Range(WireLines(rt_wire))
           /\ rt_out.err = NoErr => rt_out.rip.v.LeaseTime = f * Second

\* ------------------------------------------- bad values, terminator, end of stream (SpecParse)
\* the recognised fields with a value that does not parse
BadFieldLines == {L_ipv4Bad, L_leasetimeBad}

\* C22: a response whose command is followed by a recognised field with a
\* value that does not parse makes parseRequestIP return an error and no
\* value, also when fields that parse follow; the error is a decode fault,
\* or the read fault the scanner met.
C22_BadFieldIsError ==
    (/\ ps_pc = "done" /\ Len(ps_lines) > 0 /\ ps_lines[1] = L_cmd
     /\ \E i \in 2..Len(Taken(ps_lines)) : Taken(ps_lines)[i] \in BadFieldLines)
    => /\ ps_ret.rip = NilRequestIP
       /\ ps_ret.err.type \in DecodeFaults \cup {"transport"}

C22_Witness ==
    /\ ps_pc = "done" /\ ps_end = "blank"
    /\ ps_lines = <<L_cmd, L_leasetimeBad, L_ipv4>>
    /\ ps_ret = [rip |-> NilRequestIP, err |-> ErrAtoi(<<"x">>)]

\* C23: decoding ends at the first empty line: the lines after it, errno and
\* errmsg lines and a read fault included, do not change what is returned.
C23_NothingAfterTerminator ==
    (ps_pc = "done" /\ Body(ps_lines) # ps_lines)
    => ps_ret = readResponse(ResponseStream(Body(ps_lines), "blank"))

C23_Witness ==
    /\ ps_pc = "done" /\ ps_end = "fault"
    /\ ps_lines = <<L_cmd, L_blank, L_errno12>>
    /\ ps_ret.err = NoErr /\ ~ps_ret.rip.nil

\* the pairs that parse and report no protocol error
QuietLines == GoodLines \ {L_errno12}

\* C29: a response of the command and well-formed pairs that ends cleanly
\* without the blank line is decoded with no error, to what the same lines
\* followed by the blank line are decoded to.
C29_CleanEndLikeTerminator ==
    (/\ ps_pc = "done" /\ ps_end = "eof"
     /\ Len(ps_lines) > 0 /\ ps_lines[1] = L_cmd
     /\ \A i \in 1..Len(ps_lines) : ps_lines[i] \in QuietLines)
    => /\ ps_ret.err = NoErr /\ ~ps_ret.rip.nil
       /\ ps_ret = readResponse(ResponseStream(ps_lines, "blank"))

C29_Witness ==
    /\ ps_pc = "done" /\ ps_end = "eof"
    /\ ps_lines = <<L_cmd, L_ipv4, L_leasetime>>
    /\ ps_ret.err = NoErr /\ ps_ret.rip.v.LeaseTime = 10 * Second

C24_ExecuteReturns == (mpc = "deferred") ~> (mpc = "returned")

C24_Witness ==
    /\ mpc = "returned" /\ wpc = "done" /\ doneC = "closed" /\ wg = 0
    /\ connDeadline = "past" /\ fnRes.err = ErrCommand

\* C26: no step of RequestIP changes the caller's request.
C26_RequestUnchanged == [][req' = req]_vars

C26_Witness ==
    /\ mpc = "returned" /\ ~req.nil /\ ret.err = NoErr
    /\ ~ret.rip.nil /\ ret.rip # req

\* C27: the watcher sets the deadline only on an open connection: the
\* connection is closed after the done signal was sent and the watcher has
\* ended.
C27_NoDeadlineOnClosedConn ==
    /\ wpc = "setdeadline" => conn = "open"
    /\ conn = "closed" => (doneC = "closed" /\ wpc = "done" /\ wg = 0)

C27_Witness ==
    /\ wpc = "setdeadline" /\ mpc = "wait" /\ doneC = "closed" /\ conn = "open"

\* C28: when the function passed to execute has returned a response without
\* error, the call returns that response without error, also when the
\* context is cancelled and the watcher forces the deadline afterwards.
C28_SuccessSurvivesCancel ==
    (mpc = "returned" /\ conn # "none" /\ fnRes.err = NoErr) =>
        (ret = fnRes /\ ret.err = NoErr /\ ~ret.rip.nil)

C28_Witness ==
    /\ mpc = "returned" /\ fnRes.err = NoErr /\ ret.err = NoErr
    /\ ctxErr = "canceled" /\ connDeadline = "past"

\* C30: RequestIP returns a response exactly when it returns no error, also
\* for a response that is empty or that ends before any pair.
C30_ResponseIffNoError ==
    mpc = "returned" => (ret.rip.nil <=> ret.err # NoErr)

C30_Witness ==
    /\ mpc = "returned" /\ reply.has /\ reply.r = ResponseStream(<<>>, "eof")
    /\ ret = [rip |-> NilRequestIP, err |-> ErrCommand] /\ ~faulted /\ ctxErr = "nil"

====
